---- MODULE Spec2Model ----
(***************************************************************************)
(* Model of the Orshot MCP server core (src/src/index.ts):                 *)
(*   - makeOrShotRequest: the retry/timeout wrapper around fetch           *)
(*   - getTemplateType / resolveStudioTemplateId: template resolution      *)
(*   - autoMapModifications: the URL auto-mapping heuristic                *)
(*   - validateTemplateId / validateApiKey, the logger (src/src/logger.ts) *)
(*     and the module initialisation (src/src/config.ts, .env loading)     *)
(*   - the tool handlers generate-image, generate-image-from-studio,       *)
(*     generate-image-from-library, get-template-modifications,            *)
(*     get-library-templates, get-studio-templates and check-api-status    *)
(*   - main in SSE mode: the handlers of GET /sse and POST /messages       *)
(* JavaScript strings are TLA+ strings handled character by character      *)
(* (Len, SubSeq, \o); JavaScript values are tagged records.                *)
(***************************************************************************)
EXTENDS Integers, Sequences, FiniteSets, TLC

VARIABLES
    \* ---- configuration singleton (src/src/config.ts)
    retries,        \* config.api.retries
    retryDelay,     \* config.api.retryDelay
    \* ---- one call of makeOrShotRequest
    rpc,            \* "idle" | "attempt" | "reading" | "done"
    reqUrl,         \* url argument
    reqAuth,        \* options.headers.Authorization, without the "Bearer " prefix
    attempt,        \* loop counter of the for loop
    lastError,      \* message of lastError, or NoError
    delays,         \* backoff delays awaited so far, in order
    sent,           \* one entry per fetch issued by the wrapper: the url
    seen,           \* what each attempt received from upstream, in order
    result,         \* what the promise settled to
    reqStdout,      \* lines the call has written to stdout, in order
    reqStderr,      \* lines the call has written to stderr, in order
    \* ---- configuration and environment read by the handlers
    \* ---- module initialisation
    bootpc,             \* how far the evaluation of index.ts has got
    processEnv,         \* process.env: name -> value ("" when unset)
    dotEnv,             \* the lines of the .env file
    logLevel,           \* config.server.logLevel
    autoMapping,        \* config.features.autoMapping
    maxTemplateIdLength,\* config.security.maxTemplateIdLength
    maxApiKeyLength,    \* config.security.maxApiKeyLength
    DEFAULT_API_KEY,    \* process.env.ORSHOT_API_KEY ("" when unset)
    \* ---- the remote API's data
    studioTemplates,    \* GET /v1/studio/templates
    libraryTemplates,   \* GET /v1/templates
    declaredMods,       \* GET /v1/studio/template/modifications
    \* ---- SSE mode
    transport,          \* the variable transport of main: Null or the transport of a connection
    sseOpen,            \* the clients whose GET /sse connection is open
    posts,              \* the POST /messages requests handled so far, in order
    \* ---- one tool invocation
    tool,               \* name of the tool invoked
    hpc,                \* position of the handler
    apiKey,             \* args.apiKey ("" when not given)
    templateId,         \* args.templateId
    templateTypeArg,    \* args.templateType of get-template-modifications
    modifications,      \* args.modifications / args.data
    templateType,       \* result of getTemplateType
    resolvedTemplateId, \* result of resolveStudioTemplateId
    mappedModifications,\* result of autoMapModifications
    requestBody,        \* body of the generation request
    reply,              \* what the handler returned to the MCP client
    fetchLog,           \* direct fetch calls of the invocation, in order
    templateValidation, \* result of validateTemplateId
    keyValidation       \* result of validateApiKey

reqVars == <<retries, retryDelay, rpc, reqUrl, reqAuth, attempt, lastError, delays, sent, seen, result,
            reqStdout, reqStderr>>
sseVars == <<transport, sseOpen, posts>>
envVars == <<bootpc, processEnv, dotEnv, logLevel, autoMapping, maxTemplateIdLength, maxApiKeyLength, DEFAULT_API_KEY,
             studioTemplates, libraryTemplates, declaredMods, sseVars>>
argVars == <<tool, apiKey, templateId, templateTypeArg, modifications>>
runVars == <<hpc, templateType, resolvedTemplateId, mappedModifications, requestBody, reply, fetchLog>>
valVars == <<templateValidation, keyValidation>>
toolVars == <<envVars, argVars, runVars, valVars>>
vars == <<reqVars, toolVars>>

----------------------------------------------------------------------------
\* Bounds of the model, and the configuration defaults

MaxRetries == 3
MaxFields == 2
MaxDeclared == 2
DefaultRetries == 3
DefaultRetryDelay == 1000
DefaultMaxTemplateIdLength == 100
DefaultMaxApiKeyLength == 200
MinApiKeyLength == 10
MaxIdLen == 3

----------------------------------------------------------------------------
\* JavaScript strings

CharAt(s, i) == SubSeq(s, i, i)

\* String.prototype.includes
Includes(s, t) == \E i \in 1..(Len(s) - Len(t) + 1) : SubSeq(s, i, i + Len(t) - 1) = t

\* Math.pow(2, e)
RECURSIVE Pow2(_)
Pow2(e) == IF e = 0 THEN 1 ELSE 2 * Pow2(e - 1)

Digits == <<"0", "1", "2", "3", "4", "5", "6", "7", "8", "9">>
UpperCase == <<"A", "B", "C", "D", "E", "F", "G", "H", "I", "J", "K", "L", "M",
               "N", "O", "P", "Q", "R", "S", "T", "U", "V", "W", "X", "Y", "Z">>
LowerCase == <<"a", "b", "c", "d", "e", "f", "g", "h", "i", "j", "k", "l", "m",
               "n", "o", "p", "q", "r", "s", "t", "u", "v", "w", "x", "y", "z">>

IsDigit(c) == \E i \in DOMAIN Digits : Digits[i] = c

\* String.prototype.toLowerCase
RECURSIVE ToLowerCase(_)
ToLowerCase(s) ==
    LET LowerChar(c) ==
            IF \E i \in DOMAIN UpperCase : UpperCase[i] = c
            THEN LowerCase[CHOOSE i \in DOMAIN UpperCase : UpperCase[i] = c]
            ELSE c
    IN  IF Len(s) = 0 THEN ""
        ELSE LowerChar(CharAt(s, 1)) \o ToLowerCase(SubSeq(s, 2, Len(s)))

\* /^\d+$/.test(templateId)
isLikelyStudioTemplate(id) ==
    Len(id) > 0 /\ \A i \in 1..Len(id) : IsDigit(CharAt(id, i))

\* index of the first occurrence of character c in s, 0 when there is none
IndexOf(s, c) ==
    IF \E i \in 1..Len(s) : CharAt(s, i) = c
    THEN CHOOSE i \in 1..Len(s) : CharAt(s, i) = c /\ \A j \in 1..(i - 1) : CharAt(s, j) # c
    ELSE 0

----------------------------------------------------------------------------
\* JavaScript values: tagged records, compared with ===

Undefined == [t |-> "undefined"]
NaN == [t |-> "NaN"]
Str(s) == [t |-> "string", s |-> s]
Num(n) == [t |-> "number", n |-> n]

StrictEq(a, b) == a.t # "NaN" /\ a = b

\* value of a run of decimal digits
RECURSIVE DigitsValue(_, _)
DigitsValue(s, acc) ==
    LET DigitValue(c) == (CHOOSE i \in DOMAIN Digits : Digits[i] = c) - 1
    IN  IF Len(s) = 0 \/ ~IsDigit(CharAt(s, 1)) THEN acc
        ELSE DigitsValue(SubSeq(s, 2, Len(s)), 10 * acc + DigitValue(CharAt(s, 1)))

\* parseInt(s): the leading digits, NaN when s does not start with one
ParseInt(s) ==
    IF Len(s) > 0 /\ IsDigit(CharAt(s, 1)) THEN Num(DigitsValue(s, 0)) ELSE NaN

\* String(v)
String(v) ==
    CASE v.t = "string" -> v.s
      [] v.t = "number" -> ToString(v.n)
      [] OTHER -> v.t

\* !!v
Truthy(v) ==
    CASE v.t = "string" -> v.s # ""
      [] v.t = "number" -> v.n # 0
      [] OTHER -> FALSE

\* a || b on strings, "" standing for a missing property
Or(a, b) == IF a # "" THEN a ELSE b

\* Record<string, any>: the entries in insertion order, keys distinct
Keys(obj) == {obj[i].k : i \in DOMAIN obj}
Has(obj, k) == k \in Keys(obj)
Get(obj, k) == IF Has(obj, k) THEN obj[CHOOSE i \in DOMAIN obj : obj[i].k = k].v ELSE Undefined
Delete(obj, k) == SelectSeq(obj, LAMBDA e : e.k # k)
Set(obj, k, v) ==
    IF Has(obj, k)
    THEN [i \in DOMAIN obj |-> IF obj[i].k = k THEN [k |-> k, v |-> v] ELSE obj[i]]
    ELSE Append(obj, [k |-> k, v |-> v])
Values(obj) == [i \in DOMAIN obj |-> obj[i].v]

----------------------------------------------------------------------------
\* Logger (src/src/logger.ts)

ERROR == 0
WARN == 1
INFO == 2
DEBUG == 3

LogLevelNames == {"error", "warn", "info", "debug"}
DefaultLogLevel == "info"

\* LOG_LEVELS[name]
LOG_LEVELS(name) ==
    CASE name = "error" -> ERROR
      [] name = "warn" -> WARN
      [] name = "info" -> INFO
      [] name = "debug" -> DEBUG

\* const CURRENT_LOG_LEVEL = LOG_LEVELS[config.server.logLevel] || LogLevel.INFO
CURRENT_LOG_LEVEL == IF LOG_LEVELS(logLevel) # 0 THEN LOG_LEVELS(logLevel) ELSE INFO

\* Logger.log: the lines it gives console.error, appended to a stream
Log(stream, level, line) == IF level <= CURRENT_LOG_LEVEL THEN Append(stream, line) ELSE stream

\* Logger.timeEnd: the line console.timeEnd prints, appended to a stream
TimeEndLine(stream, label) ==
    IF CURRENT_LOG_LEVEL >= DEBUG THEN Append(stream, label \o ": <elapsed>ms") ELSE stream

\* Logger.apiRequest: an error line for a status of 400 and more, else an info line
ApiRequestLine(stream, status) ==
    IF status >= 400 THEN Log(stream, ERROR, "API request failed")
    ELSE Log(stream, INFO, "API request")

----------------------------------------------------------------------------
\* validateTemplateId and validateApiKey

\* white space removed by String.prototype.trim
WhiteSpace == {" ", "\t", "\n"}

RECURSIVE TrimStart(_)
TrimStart(s) ==
    IF Len(s) > 0 /\ CharAt(s, 1) \in WhiteSpace THEN TrimStart(SubSeq(s, 2, Len(s))) ELSE s

RECURSIVE TrimEnd(_)
TrimEnd(s) ==
    IF Len(s) > 0 /\ CharAt(s, Len(s)) \in WhiteSpace THEN TrimEnd(SubSeq(s, 1, Len(s) - 1)) ELSE s

\* String.prototype.trim
Trim(s) == TrimEnd(TrimStart(s))

\* /^[a-zA-Z0-9_-]+$/.test(s), IdChars being the character class [a-zA-Z0-9_-]
IdPattern(s) ==
    LET IdChars ==
            {LowerCase[i] : i \in DOMAIN LowerCase} \cup {UpperCase[i] : i \in DOMAIN UpperCase}
            \cup {Digits[i] : i \in DOMAIN Digits} \cup {"_", "-"}
    IN  /\ Len(s) > 0
        /\ \A i \in 1..Len(s) : CharAt(s, i) \in IdChars

\* the validators' results; error "" stands for an absent error property
NotValidated == [isValid |-> FALSE, sanitized |-> "", error |-> "<not called>"]
Invalid(error) == [isValid |-> FALSE, sanitized |-> "", error |-> error]
Valid(sanitized) == [isValid |-> TRUE, sanitized |-> sanitized, error |-> ""]

\* mutant: the identifier is accepted without looking at its characters
validateTemplateId_AnyChars(id) ==
    IF id = "" THEN Invalid("Template ID is required and must be a string")
    ELSE LET sanitized == Trim(id)
         IN  IF Len(sanitized) = 0 THEN Invalid("Template ID cannot be empty")
             ELSE IF Len(sanitized) > maxTemplateIdLength
             THEN Invalid("Template ID is too long (max " \o ToString(maxTemplateIdLength) \o " characters)")
             ELSE Valid(sanitized)

\* validateTemplateId(templateId)
validateTemplateId(id) ==
    IF id = "" THEN Invalid("Template ID is required and must be a string")
    ELSE LET sanitized == Trim(id)
         IN  IF Len(sanitized) = 0 THEN Invalid("Template ID cannot be empty")
             ELSE IF Len(sanitized) > maxTemplateIdLength
             THEN Invalid("Template ID is too long (max " \o ToString(maxTemplateIdLength) \o " characters)")
             ELSE IF ~IdPattern(sanitized) THEN Invalid("Template ID contains invalid characters")
             ELSE Valid(sanitized)

\* mutant: no upper limit on the length of the key
validateApiKey_NoMax(key) ==
    IF key = "" THEN Invalid("API key is required")
    ELSE LET trimmed == Trim(key)
         IN  IF Len(trimmed) < MinApiKeyLength THEN Invalid("API key appears to be too short")
             ELSE Valid("")

\* validateApiKey(apiKey); the result has no sanitized property
validateApiKey(key) ==
    IF key = "" THEN Invalid("API key is required")
    ELSE LET trimmed == Trim(key)
         IN  IF Len(trimmed) < MinApiKeyLength THEN Invalid("API key appears to be too short")
             ELSE IF Len(trimmed) > maxApiKeyLength THEN Invalid("API key is too long")
             ELSE Valid("")

----------------------------------------------------------------------------
\* Module initialisation: config.ts, and the head of index.ts

EnvNames ==
    {"ORSHOT_API_KEY", "API_RETRIES", "API_RETRY_DELAY", "LOG_LEVEL", "DISABLE_AUTO_MAPPING",
     "MAX_TEMPLATE_ID_LENGTH", "MAX_API_KEY_LENGTH"}

\* loadConfig(): the configuration read from an environment; the values drawn
\* pass the schema
loadConfig(env) ==
    [ retries |-> ParseInt(Or(env["API_RETRIES"], "3")).n,
      retryDelay |-> ParseInt(Or(env["API_RETRY_DELAY"], "1000")).n,
      logLevel |-> Or(env["LOG_LEVEL"], "info"),
      autoMapping |-> env["DISABLE_AUTO_MAPPING"] # "true",
      maxTemplateIdLength |-> ParseInt(Or(env["MAX_TEMPLATE_ID_LENGTH"], "100")).n,
      maxApiKeyLength |-> ParseInt(Or(env["MAX_API_KEY_LENGTH"], "200")).n ]

\* the configuration singleton, as a record
Config ==
    [ retries |-> retries, retryDelay |-> retryDelay, logLevel |-> logLevel,
      autoMapping |-> autoMapping, maxTemplateIdLength |-> maxTemplateIdLength,
      maxApiKeyLength |-> maxApiKeyLength ]

\* an environment of a started server that accounts for its configuration
StartedEnv ==
    [ name \in EnvNames |->
        CASE name = "ORSHOT_API_KEY" -> DEFAULT_API_KEY
          [] name = "API_RETRIES" -> ToString(retries)
          [] name = "API_RETRY_DELAY" -> ToString(retryDelay)
          [] name = "LOG_LEVEL" -> logLevel
          [] name = "DISABLE_AUTO_MAPPING" -> (IF autoMapping THEN "" ELSE "true")
          [] name = "MAX_TEMPLATE_ID_LENGTH" -> ToString(maxTemplateIdLength)
          [] name = "MAX_API_KEY_LENGTH" -> ToString(maxApiKeyLength) ]

\* the loop over the lines of .env: StripQuotes is value.replace(/^["']|["']$/g, ''),
\* LoadLine one iteration of the loop
RECURSIVE LoadLines(_, _, _)
LoadLines(lines, i, env) ==
    LET Quote(c) == c \in {"\"", "'"}
        StripQuotes(v) ==
            LET a == IF Len(v) > 0 /\ Quote(CharAt(v, 1)) THEN SubSeq(v, 2, Len(v)) ELSE v
            IN  IF Len(a) > 0 /\ Quote(CharAt(a, Len(a))) THEN SubSeq(a, 1, Len(a) - 1) ELSE a
        LoadLine(line) ==
            LET trimmed == Trim(line)
                eq == IndexOf(trimmed, "=")
                key == SubSeq(trimmed, 1, eq - 1)
                value == StripQuotes(SubSeq(trimmed, eq + 1, Len(trimmed)))
            IN  IF trimmed = "" \/ CharAt(trimmed, 1) = "#" \/ eq <= 1 THEN env
                ELSE IF key \in EnvNames /\ env[key] = "" THEN [env EXCEPT ![key] = value]
                ELSE env
    IN  IF i > Len(lines) THEN env ELSE LoadLines(lines, i + 1, LoadLine(lines[i]))

\* the imports of index.ts are evaluated before its body: config.ts builds the
\* singleton with loadConfig(), then logger.ts takes its level from it
BootImports ==
    /\ bootpc = "imports"
    /\ LET c == loadConfig(processEnv)
       IN  /\ retries' = c.retries
           /\ retryDelay' = c.retryDelay
           /\ logLevel' = c.logLevel
           /\ autoMapping' = c.autoMapping
           /\ maxTemplateIdLength' = c.maxTemplateIdLength
           /\ maxApiKeyLength' = c.maxApiKeyLength
    /\ bootpc' = "dotenv"
    /\ UNCHANGED <<processEnv, dotEnv, DEFAULT_API_KEY, studioTemplates, libraryTemplates, declaredMods>>
    /\ UNCHANGED <<rpc, reqUrl, reqAuth, attempt, lastError, delays, sent, seen, result,
                   reqStdout, reqStderr>>
    /\ UNCHANGED <<argVars, runVars, valVars, sseVars>>

\* the body of index.ts: the .env file is read into process.env, a variable
\* already set keeps its value
BootLoadDotEnv ==
    /\ bootpc = "dotenv"
    /\ processEnv' = LoadLines(dotEnv, 1, processEnv)
    /\ bootpc' = "apikey"
    /\ UNCHANGED <<dotEnv, logLevel, autoMapping, maxTemplateIdLength, maxApiKeyLength,
                   DEFAULT_API_KEY, studioTemplates, libraryTemplates, declaredMods>>
    /\ UNCHANGED <<reqVars, argVars, runVars, valVars, sseVars>>

\* const DEFAULT_API_KEY = process.env.ORSHOT_API_KEY
BootReadApiKey ==
    /\ bootpc = "apikey"
    /\ DEFAULT_API_KEY' = processEnv["ORSHOT_API_KEY"]
    /\ bootpc' = "ready"
    /\ UNCHANGED <<processEnv, dotEnv, logLevel, autoMapping, maxTemplateIdLength, maxApiKeyLength,
                   studioTemplates, libraryTemplates, declaredMods>>
    /\ UNCHANGED <<reqVars, argVars, runVars, valVars, sseVars>>

----------------------------------------------------------------------------
\* Upstream behaviour seen by one attempt of makeOrShotRequest

NoError == "<null>"
Pending == [t |-> "pending"]
Null == [t |-> "null"]
Thrown == [t |-> "thrown"]

\* Error response bodies: raw text, and the parsed JSON object when the text is JSON
ErrorBodies ==
    { [text |-> "", json |-> FALSE, message |-> "", error |-> ""],
      [text |-> "{...}", json |-> TRUE, message |-> "Invalid API key", error |-> "unauthorized"],
      [text |-> "Upstream returned 404", json |-> FALSE, message |-> "", error |-> ""] }

ErrorStatuses == {401, 403, 404, 500}

StatusText(status) ==
    CASE status = 401 -> "Unauthorized"
      [] status = 403 -> "Forbidden"
      [] status = 404 -> "Not Found"
      [] status = 500 -> "Internal Server Error"
      [] OTHER -> ""

NetworkMessages == {"fetch failed"}
AbortMessage == "This operation was aborted"
SyntaxMessage == "Unexpected token < in JSON at position 0"

\* ghost record of what an attempt received
Seen(kind, status) == [kind |-> kind, status |-> status]

----------------------------------------------------------------------------
\* makeOrShotRequest

\* the message of the Error thrown for a non-2xx response
ErrorMessage(status, body) ==
    LET statusLine == "HTTP " \o ToString(status) \o " " \o StatusText(status)
    IN  IF body.json
        THEN IF body.message # "" THEN body.message
             ELSE IF body.error # "" THEN body.error
             ELSE statusLine
        ELSE IF body.text # "" THEN body.text ELSE statusLine

\* "Don't retry for certain error types"
NoRetry(message) ==
    Includes(message, "401") \/ Includes(message, "403") \/ Includes(message, "404")

\* the catch block of one loop iteration, followed by the loop's exit test
Catch(message) ==
    /\ lastError' = message
    /\ IF NoRetry(message)
       THEN /\ rpc' = "done"
            /\ result' = Null
            /\ UNCHANGED <<attempt, delays>>
       ELSE /\ delays' = IF attempt < retries
                         THEN Append(delays, Pow2(attempt - 1) * retryDelay)
                         ELSE delays
            /\ attempt' = attempt + 1
            /\ IF attempt + 1 <= retries
               THEN /\ rpc' = "attempt"
                    /\ UNCHANGED result
               ELSE /\ rpc' = "done"
                    /\ result' = Null

\* the lines written by the catch block of one loop iteration and, when the
\* loop ends, by the code after the loop, given the lines written to stderr
\* before the throw
CatchLog(before, timedOut, message) ==
    LET failed == Log(before, ERROR, IF timedOut THEN "Request timeout on attempt"
                                                 ELSE "Request failed on attempt")
        retried == IF ~NoRetry(message) /\ attempt < retries
                   THEN Log(failed, DEBUG, "Retrying request after delay")
                   ELSE failed
        exits == NoRetry(message) \/ attempt + 1 > retries
    IN  /\ reqStderr' = IF exits THEN Log(retried, ERROR, "All retry attempts failed") ELSE retried
        /\ reqStdout' = IF exits THEN TimeEndLine(reqStdout, "API Request: " \o reqUrl) ELSE reqStdout

\* every attempt starts by calling fetch(url, ...)
Fetch(what) ==
    /\ rpc = "attempt"
    /\ attempt <= retries
    /\ sent' = Append(sent, reqUrl)
    /\ seen' = Append(seen, what)
    /\ UNCHANGED <<retries, retryDelay, reqUrl, reqAuth>>
    /\ UNCHANGED toolVars

\* fetch rejects: connection refused, DNS failure, reset
AttemptNetworkError ==
    \E m \in NetworkMessages :
        /\ Fetch(Seen("network", 0))
        /\ Catch(m)
        /\ CatchLog(reqStderr, FALSE, m)

\* the timer fires first: controller.abort() makes fetch reject with AbortError
AttemptTimeout ==
    /\ Fetch(Seen("timeout", 0))
    /\ Catch(AbortMessage)
    /\ CatchLog(reqStderr, TRUE, AbortMessage)

\* a response with !response.ok
AttemptHttpError ==
    \E status \in ErrorStatuses, body \in ErrorBodies :
        /\ Fetch(Seen("http", status))
        /\ Catch(ErrorMessage(status, body))
        /\ CatchLog(ApiRequestLine(reqStderr, status), FALSE, ErrorMessage(status, body))

\* mutant: response.json() is awaited outside the try block, its SyntaxError
\* rejects the call
AttemptBadJson_Uncaught ==
    /\ Fetch(Seen("badjson", 200))
    /\ rpc' = "done"
    /\ result' = Thrown
    /\ UNCHANGED <<attempt, lastError, delays, reqStdout, reqStderr>>

\* a 2xx response whose body response.json() cannot parse
AttemptBadJson ==
    /\ Fetch(Seen("badjson", 200))
    /\ Catch(SyntaxMessage)
    /\ CatchLog(reqStderr, FALSE, SyntaxMessage)

\* a 2xx response with a JSON body: return result
AttemptOk ==
    /\ Fetch(Seen("ok", 200))
    /\ rpc' = "done"
    /\ result' = [t |-> "json", v |-> "body"]
    /\ reqStderr' = ApiRequestLine(reqStderr, 200)
    /\ reqStdout' = TimeEndLine(reqStdout, "API Request: " \o reqUrl)
    /\ UNCHANGED <<attempt, lastError, delays>>

\* the response headers arrive in time and clearTimeout(timeoutId) disarms the
\* timer; the upstream then stops sending the body, so the promise of
\* response.text() / response.json() is awaited with no timer left to abort it
AttemptBodyStalls ==
    \E status \in ErrorStatuses \cup {200} :
        /\ Fetch(Seen("stalled", status))
        /\ rpc' = "reading"
        /\ UNCHANGED <<attempt, lastError, delays, result, reqStdout, reqStderr>>

makeOrShotRequest ==
    \/ AttemptNetworkError
    \/ AttemptTimeout
    \/ AttemptHttpError
    \/ AttemptBadJson
    \/ AttemptOk
    \/ AttemptBodyStalls

----------------------------------------------------------------------------
\* Direct fetch calls of the resolvers and handlers (no retry wrapper)

StudioUrl == "/v1/studio/templates"
LibraryUrl == "/v1/templates"
StudioModsUrl == "/v1/studio/template/modifications"
LibraryModsUrl == "/v1/templates/modifications"
GenerateUrl == "/v1/generate/images"
RenderUrl == "/v1/studio/render"

\* "ok": 2xx with a JSON array; "notarray": 2xx with JSON that is no array;
\* "notok": a non-2xx response; "throw": fetch rejects; "badjson": 2xx whose
\* body is no JSON, so that response.json() throws
FetchOutcomes == {"ok", "notarray", "notok", "throw", "badjson"}

\* the call lands in the catch block of the surrounding try
Throws(outcome) == outcome \in {"throw", "badjson"}

\* mutant: the environment default is preferred to the argument
ActualApiKey_EnvFirst == Or(DEFAULT_API_KEY, apiKey)

\* const actualApiKey = apiKey || DEFAULT_API_KEY
ActualApiKey == Or(apiKey, DEFAULT_API_KEY)

\* a direct fetch call: the url, the outcome, and the bearer token of its
\* Authorization header, which is actualApiKey in every call
Fetched(url, outcome) == [url |-> url, outcome |-> outcome, auth |-> ActualApiKey]

\* Array.isArray(body) ? body : []
ArrayOf(outcome, body) == IF outcome = "ok" THEN body ELSE <<>>

\* response.ok
ResponseOk(outcome) == outcome \in {"ok", "notarray"}

\* template.name?.toLowerCase() === templateId.toLowerCase()
NameMatches(template, id) ==
    template.name.t = "string" /\ ToLowerCase(template.name.s) = ToLowerCase(id)

\* the predicate of the first studio check (numeric identifiers)
StudioMatchNumeric(template, id) ==
    \/ StrictEq(template.id, Str(id))
    \/ StrictEq(template.id, ParseInt(id))
    \/ NameMatches(template, id)

\* the predicate of the library check
LibraryMatch(template, id) ==
    \/ StrictEq(template.id, Str(id))
    \/ StrictEq(template.template_id, Str(id))

\* Array.prototype.some
Some(array, P(_)) == \E i \in DOMAIN array : P(array[i])

\* Array.prototype.find: index of the first element satisfying P, 0 when none
FindIndex(array, P(_)) ==
    IF Some(array, P)
    THEN CHOOSE i \in DOMAIN array : P(array[i]) /\ \A j \in 1..(i - 1) : ~P(array[j])
    ELSE 0

\* mutant: the library listing is consulted first for every identifier
getTemplateType_LibraryFirst(id, so, lo) ==
    LET S == Fetched(StudioUrl, so)
        L == Fetched(LibraryUrl, lo)
    IN  IF Throws(lo) THEN [type |-> "null", log |-> <<L>>]
        ELSE IF ResponseOk(lo) /\ Some(ArrayOf(lo, libraryTemplates), LAMBDA t : LibraryMatch(t, id))
        THEN [type |-> "library", log |-> <<L>>]
        ELSE IF Throws(so) THEN [type |-> "null", log |-> <<L, S>>]
        ELSE IF ResponseOk(so) /\ Some(ArrayOf(so, studioTemplates), LAMBDA t : StudioMatchNumeric(t, id))
        THEN [type |-> "studio", log |-> <<L, S>>]
        ELSE [type |-> "null", log |-> <<L, S>>]

\* getTemplateType(templateId, apiKey), given the outcome of its studio fetch (so)
\* and of its library fetch (lo): the type, and the fetches made, in order
getTemplateType(id, so, lo) ==
    LET numeric == isLikelyStudioTemplate(id)
        studio == ArrayOf(so, studioTemplates)
        library == ArrayOf(lo, libraryTemplates)
        S == Fetched(StudioUrl, so)
        L == Fetched(LibraryUrl, lo)
        \* the predicate of the second studio check (non-numeric identifiers)
        StudioMatchByName(template) ==
            \/ StrictEq(template.id, Str(id))
            \/ NameMatches(template, id)
        \* steps after the library check
        last == IF ~numeric
                THEN IF Throws(so) THEN [type |-> "null", log |-> <<S>>]
                     ELSE IF ResponseOk(so) /\ Some(studio, StudioMatchByName)
                     THEN [type |-> "studio", log |-> <<S>>]
                     ELSE [type |-> "null", log |-> <<S>>]
                ELSE [type |-> "null", log |-> <<>>]
        \* the library check and what follows
        middle == IF Throws(lo) THEN [type |-> "null", log |-> <<L>>]
                  ELSE IF ResponseOk(lo) /\ Some(library, LAMBDA t : LibraryMatch(t, id))
                  THEN [type |-> "library", log |-> <<L>>]
                  ELSE [type |-> last.type, log |-> <<L>> \o last.log]
    IN  IF numeric
        THEN IF Throws(so) THEN [type |-> "null", log |-> <<S>>]
             ELSE IF ResponseOk(so) /\ Some(studio, LAMBDA t : StudioMatchNumeric(t, id))
             THEN [type |-> "studio", log |-> <<S>>]
             ELSE [type |-> middle.type, log |-> <<S>> \o middle.log]
        ELSE middle

\* mutant: the name is compared without toLowerCase()
resolveStudioTemplateId_CaseSensitive(idOrName, so) ==
    IF isLikelyStudioTemplate(idOrName)
    THEN [id |-> idOrName, log |-> <<>>]
    ELSE LET studio == ArrayOf(so, studioTemplates)
             Match(t) == StrictEq(t.name, Str(idOrName)) \/ StrictEq(t.id, Str(idOrName))
             i == FindIndex(studio, Match)
         IN  IF ~Throws(so) /\ ResponseOk(so) /\ i # 0
             THEN [id |-> String(studio[i].id), log |-> <<Fetched(StudioUrl, so)>>]
             ELSE [id |-> "", log |-> <<Fetched(StudioUrl, so)>>]

\* mutant: templates are found by name only, not by exact ID
resolveStudioTemplateId_NameOnly(idOrName, so) ==
    IF isLikelyStudioTemplate(idOrName)
    THEN [id |-> idOrName, log |-> <<>>]
    ELSE LET studio == ArrayOf(so, studioTemplates)
             Match(t) == NameMatches(t, idOrName)
             i == FindIndex(studio, Match)
         IN  IF ~Throws(so) /\ ResponseOk(so) /\ i # 0
             THEN [id |-> String(studio[i].id), log |-> <<Fetched(StudioUrl, so)>>]
             ELSE [id |-> "", log |-> <<Fetched(StudioUrl, so)>>]

\* resolveStudioTemplateId(templateIdOrName, apiKey), given the outcome of its
\* studio fetch: the resolved ID ("" for null), and the fetches made
resolveStudioTemplateId(idOrName, so) ==
    IF isLikelyStudioTemplate(idOrName)
    THEN [id |-> idOrName, log |-> <<>>]
    ELSE LET studio == ArrayOf(so, studioTemplates)
             Match(t) == NameMatches(t, idOrName) \/ StrictEq(t.id, Str(idOrName))
             i == FindIndex(studio, Match)
         IN  IF ~Throws(so) /\ ResponseOk(so) /\ i # 0
             THEN [id |-> String(studio[i].id), log |-> <<Fetched(StudioUrl, so)>>]
             ELSE [id |-> "", log |-> <<Fetched(StudioUrl, so)>>]

----------------------------------------------------------------------------
\* autoMapModifications

\* the host of a special-scheme URL: what follows the scheme's colon, leading
\* slashes skipped, up to the next slash
RECURSIVE SkipSlashes(_)
SkipSlashes(s) ==
    IF Len(s) > 0 /\ CharAt(s, 1) \in {"/", "\\"} THEN SkipSlashes(SubSeq(s, 2, Len(s))) ELSE s

\* isUrl(str): new URL(str) parses and its protocol is http: or https:
isUrl(str) ==
    LET c == IndexOf(str, ":")
        HostOf(rest) ==
            LET r == SkipSlashes(rest)
                e == IndexOf(r, "/")
            IN  IF e = 0 THEN r ELSE SubSeq(r, 1, e - 1)
    IN  /\ c > 1
        /\ ToLowerCase(SubSeq(str, 1, c - 1)) \in {"http", "https"}
        /\ LET host == HostOf(SubSeq(str, c + 1, Len(str)))
           IN  Len(host) > 0 /\ IndexOf(host, " ") = 0

\* typeof value === 'string' && isUrl(value)
IsUrlValue(v) == v.t = "string" /\ isUrl(v.s)

ModKey(mod) == ToLowerCase(Or(mod.key, mod.id))
ModDesc(mod) == ToLowerCase(mod.description)

\* the predicate of modArray.find in the mapping loop
UrlFieldMatch(mod) ==
    \/ \E w \in {"image", "url", "photo", "picture", "media", "src"} : Includes(ModKey(mod), w)
    \/ \E w \in {"image", "url", "photo", "picture", "media"} : Includes(ModDesc(mod), w)

\* the predicate of modArray.filter in the single-URL special case
ImageFieldMatch(mod) ==
    \/ \E w \in {"image", "photo", "picture", "media", "url", "src"} : Includes(ModKey(mod), w)
    \/ \E w \in {"image", "photo", "picture"} : Includes(ModDesc(mod), w)

\* the loop over Object.entries(inputModifications), MapEntry being one iteration
RECURSIVE MapEntries(_, _, _, _)
MapEntries(input, modArray, i, mapped) ==
    LET MapEntry(e) ==
            LET j == FindIndex(modArray, UrlFieldMatch)
                urlKey == IF j = 0 THEN "" ELSE Or(modArray[j].key, modArray[j].id)
            IN  IF IsUrlValue(e.v) /\ j # 0 /\ urlKey # ""
                THEN Set(IF e.k # urlKey THEN Delete(mapped, e.k) ELSE mapped, urlKey, e.v)
                ELSE mapped
    IN  IF i > Len(input) THEN mapped
        ELSE MapEntries(input, modArray, i + 1, MapEntry(input[i]))

\* "if we have a single URL value ... and there's only one image-like field"
SingleUrlFallback(input, modArray, mapped) ==
    LET urlValues == SelectSeq(Values(input), IsUrlValue)
        imageFields == SelectSeq(modArray, ImageFieldMatch)
    IN  IF Len(urlValues) = 1 /\ Len(imageFields) = 1
        THEN LET fieldKey == Or(imageFields[1].key, imageFields[1].id)
             IN  IF fieldKey # "" /\ ~Truthy(Get(mapped, fieldKey))
                 THEN Set(mapped, fieldKey, urlValues[1])
                 ELSE mapped
        ELSE mapped

\* the mapping proper, once the declared fields are known and not empty
MapModifications(input, modArray) ==
    SingleUrlFallback(input, modArray, MapEntries(input, modArray, 1, input))

\* mutant: a failed lookup of the declared fields yields an empty object
autoMapModifications_DropsOnError(input, mo) ==
    IF ~autoMapping
    THEN [out |-> input, log |-> <<>>]
    ELSE LET modArray == ArrayOf(mo, declaredMods)
             F == <<Fetched(StudioModsUrl, mo)>>
         IN  IF Throws(mo) \/ ~ResponseOk(mo)
             THEN [out |-> <<>>, log |-> F]
             ELSE IF Len(modArray) = 0
             THEN [out |-> input, log |-> F]
             ELSE [out |-> MapModifications(input, modArray), log |-> F]

\* mutant: the feature flag is not consulted
autoMapModifications_FlagIgnored(input, mo) ==
    LET modArray == ArrayOf(mo, declaredMods)
        F == <<Fetched(StudioModsUrl, mo)>>
    IN  IF Throws(mo) \/ ~ResponseOk(mo) \/ Len(modArray) = 0
        THEN [out |-> input, log |-> F]
        ELSE [out |-> MapModifications(input, modArray), log |-> F]

\* autoMapModifications(templateId, inputModifications, apiKey), given the outcome
\* of its fetch of the declared fields: the returned object and the fetches made
autoMapModifications(input, mo) ==
    IF ~autoMapping
    THEN [out |-> input, log |-> <<>>]
    ELSE LET modArray == ArrayOf(mo, declaredMods)
             F == <<Fetched(StudioModsUrl, mo)>>
         IN  IF Throws(mo) \/ ~ResponseOk(mo) \/ Len(modArray) = 0
             THEN [out |-> input, log |-> F]
             ELSE [out |-> MapModifications(input, modArray), log |-> F]

----------------------------------------------------------------------------
\* Tool handlers

\* kind: which return statement; n: the count the text reports; text: the part
\* of the text that is taken from an error
NoReply == [kind |-> "none", n |-> 0, text |-> ""]
Reply(kind) == [kind |-> kind, n |-> 0, text |-> ""]
ReplyCount(kind, n) == [kind |-> kind, n |-> n, text |-> ""]
ReplyText(kind, text) == [kind |-> kind, n |-> 0, text |-> text]
NoBody == [templateId |-> "", modifications |-> <<>>]

\* the handler returns: nothing else of the invocation changes
Return(r) ==
    /\ reply' = r
    /\ hpc' = "replied"

\* the handler calls makeOrShotRequest(url, {method: "POST", body})
CallWrapper(url, body) ==
    /\ requestBody' = body
    /\ hpc' = "requesting"
    /\ rpc' = "attempt"
    /\ reqUrl' = url
    /\ reqAuth' = ActualApiKey
    /\ attempt' = 1
    /\ lastError' = NoError
    /\ delays' = <<>>
    /\ result' = Pending
    /\ reqStdout' = <<>>
    /\ reqStderr' = <<>>
    /\ UNCHANGED <<retries, retryDelay, sent, seen>>

\* mutant: the handler does not test the type for null and goes on with the
\* library endpoint
GenerateImage_Detect_NoNullCheck ==
    /\ tool = "generate-image"
    /\ hpc = "start"
    /\ IF ActualApiKey = ""
       THEN /\ Return(Reply("no-api-key"))
            /\ UNCHANGED <<templateType, fetchLog>>
       ELSE \E so \in FetchOutcomes, lo \in FetchOutcomes :
               LET r == getTemplateType(templateId, so, lo)
               IN  /\ templateType' = IF r.type = "null" THEN "library" ELSE r.type
                   /\ fetchLog' = fetchLog \o r.log
                   /\ hpc' = "typed"
                   /\ UNCHANGED reply
    /\ UNCHANGED <<resolvedTemplateId, mappedModifications, requestBody>>
    /\ UNCHANGED <<reqVars, envVars, argVars, valVars>>

\* generate-image: the API key, then getTemplateType
GenerateImage_Detect ==
    /\ tool = "generate-image"
    /\ hpc = "start"
    /\ IF ActualApiKey = ""
       THEN /\ Return(Reply("no-api-key"))
            /\ UNCHANGED <<templateType, fetchLog>>
       ELSE \E so \in FetchOutcomes, lo \in FetchOutcomes :
               LET r == getTemplateType(templateId, so, lo)
               IN  /\ templateType' = r.type
                   /\ fetchLog' = fetchLog \o r.log
                   /\ IF r.type = "null"
                      THEN Return(Reply("not-found"))
                      ELSE /\ hpc' = "typed"
                           /\ UNCHANGED reply
    /\ UNCHANGED <<resolvedTemplateId, mappedModifications, requestBody>>
    /\ UNCHANGED <<reqVars, envVars, argVars, valVars>>

\* mutant: the library branch posts to the studio endpoint
GenerateImage_Library_ToRender ==
    /\ tool = "generate-image"
    /\ hpc = "typed"
    /\ templateType = "library"
    /\ CallWrapper(RenderUrl, [templateId |-> templateId, modifications |-> modifications])
    /\ UNCHANGED <<templateType, resolvedTemplateId, mappedModifications, reply, fetchLog>>
    /\ UNCHANGED <<envVars, argVars, valVars>>

\* generate-image, templateType === 'library': POST /v1/generate/images
GenerateImage_Library ==
    /\ tool = "generate-image"
    /\ hpc = "typed"
    /\ templateType = "library"
    /\ CallWrapper(GenerateUrl, [templateId |-> templateId, modifications |-> modifications])
    /\ UNCHANGED <<templateType, resolvedTemplateId, mappedModifications, reply, fetchLog>>
    /\ UNCHANGED <<envVars, argVars, valVars>>

\* resolveStudioTemplateId and the "Studio template not found" reply
ResolveStudio ==
    \E so \in FetchOutcomes :
        LET r == resolveStudioTemplateId(templateId, so)
        IN  /\ fetchLog' = fetchLog \o r.log
            /\ resolvedTemplateId' = r.id
            /\ IF r.id = ""
               THEN Return(Reply("studio-not-found"))
               ELSE /\ hpc' = "resolved"
                    /\ UNCHANGED reply

\* autoMapModifications, the request body, POST /v1/studio/render
RenderStudio ==
    \E mo \in FetchOutcomes :
        LET m == autoMapModifications(modifications, mo)
        IN  /\ fetchLog' = fetchLog \o m.log
            /\ mappedModifications' = m.out
            /\ CallWrapper(RenderUrl, [templateId |-> resolvedTemplateId, modifications |-> m.out])

\* generate-image, studio branch: resolve the template
GenerateImage_Resolve ==
    /\ tool = "generate-image"
    /\ hpc = "typed"
    /\ templateType = "studio"
    /\ ResolveStudio
    /\ UNCHANGED <<templateType, mappedModifications, requestBody>>
    /\ UNCHANGED <<reqVars, envVars, argVars, valVars>>

\* generate-image, studio branch: auto-map and render
GenerateImage_Render ==
    /\ tool = "generate-image"
    /\ hpc = "resolved"
    /\ RenderStudio
    /\ UNCHANGED <<templateType, resolvedTemplateId, reply>>
    /\ UNCHANGED <<envVars, argVars, valVars>>

\* generate-image-from-studio: the API key, then resolve the template
FromStudio_Resolve ==
    /\ tool = "generate-image-from-studio"
    /\ hpc = "start"
    /\ IF ActualApiKey = ""
       THEN /\ Return(Reply("no-api-key"))
            /\ UNCHANGED <<resolvedTemplateId, fetchLog>>
       ELSE ResolveStudio
    /\ UNCHANGED <<templateType, mappedModifications, requestBody>>
    /\ UNCHANGED <<reqVars, envVars, argVars, valVars>>

\* generate-image-from-studio: auto-map and render
FromStudio_Render ==
    /\ tool = "generate-image-from-studio"
    /\ hpc = "resolved"
    /\ RenderStudio
    /\ UNCHANGED <<templateType, resolvedTemplateId, reply>>
    /\ UNCHANGED <<envVars, argVars, valVars>>

\* generate-image-from-library: validateTemplateId, the API key, validateApiKey,
\* then POST /v1/generate/images with the sanitized template ID
FromLibrary_Generate ==
    /\ tool = "generate-image-from-library"
    /\ hpc = "start"
    /\ LET tv == validateTemplateId(templateId)
           kv == validateApiKey(ActualApiKey)
       IN  /\ templateValidation' = tv
           /\ IF ~tv.isValid
              THEN /\ Return(Reply("invalid-template-id"))
                   /\ UNCHANGED <<keyValidation, requestBody, reqVars>>
              ELSE IF ActualApiKey = ""
              THEN /\ Return(Reply("no-api-key"))
                   /\ UNCHANGED <<keyValidation, requestBody, reqVars>>
              ELSE /\ keyValidation' = kv
                   /\ IF ~kv.isValid
                      THEN /\ Return(Reply("invalid-api-key"))
                           /\ UNCHANGED <<requestBody, reqVars>>
                      ELSE /\ CallWrapper(GenerateUrl, [templateId |-> tv.sanitized,
                                                        modifications |-> modifications])
                           /\ UNCHANGED reply
    /\ UNCHANGED <<templateType, resolvedTemplateId, mappedModifications, fetchLog>>
    /\ UNCHANGED <<envVars, argVars>>

\* if (!response) "Failed to generate ..." else "... generated successfully"
GenerationReply ==
    /\ tool \in {"generate-image", "generate-image-from-studio", "generate-image-from-library"}
    /\ hpc = "requesting"
    /\ rpc = "done"
    /\ Return(Reply(IF result = Null THEN "failed" ELSE "success"))
    /\ UNCHANGED <<templateType, resolvedTemplateId, mappedModifications, requestBody, fetchLog>>
    /\ UNCHANGED <<reqVars, envVars, argVars, valVars>>

\* get-template-modifications: the API key, then the template type
GetMods_Detect ==
    /\ tool = "get-template-modifications"
    /\ hpc = "start"
    /\ IF ActualApiKey = ""
       THEN /\ Return(Reply("no-api-key"))
            /\ UNCHANGED <<templateType, fetchLog>>
       ELSE IF templateTypeArg = "auto"
       THEN \E so \in FetchOutcomes, lo \in FetchOutcomes :
               LET r == getTemplateType(templateId, so, lo)
               IN  /\ templateType' = r.type
                   /\ fetchLog' = fetchLog \o r.log
                   /\ IF r.type = "null"
                      THEN Return(Reply("not-found"))
                      ELSE /\ hpc' = "typed"
                           /\ UNCHANGED reply
       ELSE /\ templateType' = templateTypeArg
            /\ hpc' = "typed"
            /\ UNCHANGED <<reply, fetchLog>>
    /\ UNCHANGED <<resolvedTemplateId, mappedModifications, requestBody>>
    /\ UNCHANGED <<reqVars, envVars, argVars, valVars>>

\* the library branch: the listing's own modifications, else the modifications endpoint
LibraryMods(lo, mo) ==
    LET L == Fetched(LibraryUrl, lo)
        M == Fetched(LibraryModsUrl, mo)
        templates == ArrayOf(lo, libraryTemplates)
        i == FindIndex(templates, LAMBDA t : StrictEq(t.id, Str(templateId)))
        own == IF ResponseOk(lo) /\ i # 0 THEN templates[i].modifications ELSE <<>>
    IN  IF Throws(lo) THEN [mods |-> <<>>, log |-> <<L>>]
        ELSE IF Len(own) # 0 THEN [mods |-> own, log |-> <<L>>]
        ELSE IF Throws(mo) \/ ~ResponseOk(mo) THEN [mods |-> <<>>, log |-> <<L, M>>]
        ELSE [mods |-> ArrayOf(mo, declaredMods), log |-> <<L, M>>]

\* the studio branch: the listing's own modifications, else resolve the ID and
\* ask the modifications endpoint
StudioMods(so, so2, mo) ==
    LET S == Fetched(StudioUrl, so)
        M == Fetched(StudioModsUrl, mo)
        templates == ArrayOf(so, studioTemplates)
        i == FindIndex(templates, LAMBDA t : StudioMatchNumeric(t, templateId))
        own == IF ResponseOk(so) /\ i # 0 THEN templates[i].modifications ELSE <<>>
        r == resolveStudioTemplateId(templateId, so2)
    IN  IF Throws(so) THEN [mods |-> <<>>, log |-> <<S>>]
        ELSE IF Len(own) # 0 THEN [mods |-> own, log |-> <<S>>]
        ELSE IF r.id = "" THEN [mods |-> <<>>, log |-> <<S>> \o r.log]
        ELSE IF Throws(mo) \/ ~ResponseOk(mo) THEN [mods |-> <<>>, log |-> <<S>> \o r.log \o <<M>>]
        ELSE [mods |-> ArrayOf(mo, declaredMods), log |-> <<S>> \o r.log \o <<M>>]

\* get-template-modifications: fetch the modifications and reply
GetMods_Fetch ==
    /\ tool = "get-template-modifications"
    /\ hpc = "typed"
    /\ \E so \in FetchOutcomes, so2 \in FetchOutcomes, mo \in FetchOutcomes :
          LET f == IF templateType = "library" THEN LibraryMods(so, mo) ELSE StudioMods(so, so2, mo)
          IN  /\ fetchLog' = fetchLog \o f.log
              /\ Return(IF Len(f.mods) = 0
                        THEN Reply("no-modifications")
                        ELSE ReplyCount("found-modifications", Len(f.mods)))
    /\ UNCHANGED <<templateType, resolvedTemplateId, mappedModifications, requestBody>>
    /\ UNCHANGED <<reqVars, envVars, argVars, valVars>>

\* get-library-templates and get-studio-templates: the API key, one direct fetch
\* of the listing, and the reply; a failure is reported with the error's message
ListTemplates ==
    /\ tool \in {"get-library-templates", "get-studio-templates"}
    /\ hpc = "start"
    /\ IF ActualApiKey = ""
       THEN /\ Return(Reply("no-api-key"))
            /\ UNCHANGED fetchLog
       ELSE \E o \in FetchOutcomes, status \in ErrorStatuses, m \in NetworkMessages :
               LET library == tool = "get-library-templates"
                   url == IF library THEN LibraryUrl ELSE StudioUrl
                   array == ArrayOf(o, IF library THEN libraryTemplates ELSE studioTemplates)
                   message == CASE o = "throw" -> m
                                [] o = "badjson" -> SyntaxMessage
                                [] OTHER -> "HTTP error! status: " \o ToString(status)
               IN  /\ fetchLog' = Append(fetchLog, Fetched(url, o))
                   /\ Return(IF Throws(o) \/ ~ResponseOk(o)
                             THEN ReplyText("fetch-failed", message)
                             ELSE IF Len(array) = 0 THEN Reply("no-templates")
                             ELSE ReplyCount("found-templates", Len(array)))
    /\ UNCHANGED <<templateType, resolvedTemplateId, mappedModifications, requestBody>>
    /\ UNCHANGED <<reqVars, envVars, argVars, valVars>>

\* check-api-status: the API key, one direct fetch of the library listing, and
\* the reply, which reports the status and the error's message
CheckApiStatus ==
    /\ tool = "check-api-status"
    /\ hpc = "start"
    /\ IF ActualApiKey = ""
       THEN /\ Return(Reply("no-api-key"))
            /\ UNCHANGED fetchLog
       ELSE \E o \in FetchOutcomes, status \in ErrorStatuses, body \in ErrorBodies,
               m \in NetworkMessages :
               /\ fetchLog' = Append(fetchLog, Fetched(LibraryUrl, o))
               /\ Return(CASE o = "throw" -> ReplyText("status-network-error", m)
                           [] o = "badjson" -> ReplyText("status-network-error", SyntaxMessage)
                           [] o = "notok" ->
                                ReplyText("status-failed",
                                          IF body.json /\ (body.message # "" \/ body.error # "")
                                          THEN ErrorMessage(status, body)
                                          ELSE "HTTP " \o ToString(status) \o " " \o StatusText(status))
                           [] OTHER -> ReplyCount("status-connected",
                                                  Len(ArrayOf(o, libraryTemplates))))
    /\ UNCHANGED <<templateType, resolvedTemplateId, mappedModifications, requestBody>>
    /\ UNCHANGED <<reqVars, envVars, argVars, valVars>>

----------------------------------------------------------------------------
\* The remote data and the arguments the specifications draw from

FProduct == [key |-> "productImage", id |-> "", description |-> "product photo"]
FTitle == [key |-> "title", id |-> "", description |-> "headline text"]
FLogo == [key |-> "logo", id |-> "", description |-> "company logo url"]

StudioTemplate(id, name, mods) == [id |-> id, name |-> name, modifications |-> mods]
LibraryTemplate(id, tid, mods) == [id |-> id, template_id |-> tid, modifications |-> mods]

StudioListings ==
    { << StudioTemplate(Num(7), Str("Banner"), <<FProduct>>),
         StudioTemplate(Num(42), Str("007"), <<>>) >>,
      << StudioTemplate(Str("card"), Undefined, <<>>),
         StudioTemplate(Num(7), Str("banner"), <<>>) >> }

LibraryListings ==
    { << LibraryTemplate(Str("website-screenshot"), Undefined, <<FTitle>>),
         LibraryTemplate(Str("banner"), Undefined, <<>>),
         LibraryTemplate(Str("7"), Undefined, <<>>) >>,
      << LibraryTemplate(Num(1), Str("tweet-image"), <<>>) >> }

TemplateIds ==
    {"7", "007", "999", "banner", "BANNER", "card", "website-screenshot", "tweet-image", "ghost",
     "bad id", " banner"}

Url1 == Str("https://x.com/a.jpg")
Entry(k, v) == [k |-> k, v |-> v]

----------------------------------------------------------------------------
\* Specification of the wrapper alone: one call, for every configuration

\* no tool invocation is in progress
ToolIdle ==
    /\ autoMapping = TRUE
    /\ maxTemplateIdLength = DefaultMaxTemplateIdLength
    /\ maxApiKeyLength = DefaultMaxApiKeyLength
    /\ templateValidation = NotValidated
    /\ keyValidation = NotValidated
    /\ DEFAULT_API_KEY = ""
    /\ studioTemplates = <<>>
    /\ libraryTemplates = <<>>
    /\ declaredMods = <<>>
    /\ tool = "none"
    /\ hpc = "none"
    /\ apiKey = ""
    /\ templateId = ""
    /\ templateTypeArg = "auto"
    /\ modifications = <<>>
    /\ templateType = "null"
    /\ resolvedTemplateId = ""
    /\ mappedModifications = <<>>
    /\ requestBody = NoBody
    /\ reply = NoReply
    /\ fetchLog = <<>>
    /\ transport = Null
    /\ sseOpen = {}
    /\ posts = <<>>
    /\ bootpc = "ready"
    /\ dotEnv = <<>>
    /\ processEnv = StartedEnv

InitReq ==
    /\ retries \in 1..MaxRetries
    /\ retryDelay \in {100, 1000}
    /\ rpc = "attempt"
    /\ reqUrl = GenerateUrl
    /\ reqAuth = "sk_arg_0123456789"
    /\ logLevel \in LogLevelNames
    /\ attempt = 1
    /\ lastError = NoError
    /\ delays = <<>>
    /\ sent = <<>>
    /\ seen = <<>>
    /\ result = Pending
    /\ reqStdout = <<>>
    /\ reqStderr = <<>>
    /\ ToolIdle

SpecReq == InitReq /\ [][makeOrShotRequest]_vars

\* the wrapper alone, its loop always taking its next step when it has one
SpecReqLive == InitReq /\ [][makeOrShotRequest]_vars /\ WF_vars(makeOrShotRequest)

----------------------------------------------------------------------------
\* Specification of autoMapModifications alone: one call, for every input object
\* and every list of declared fields

InputObjects ==
    LET MapKeys == {"img", "productImage", "title"}
        MapValues == {Url1, Str("http://y.org/b.png"), Str("ftp://x.com/a.jpg"), Str("")}
        MapEntrySet == {Entry(k, v) : k \in MapKeys, v \in MapValues}
    IN  UNION { {o \in [1..n -> MapEntrySet] : \A i, j \in 1..n : i # j => o[i].k # o[j].k} :
                n \in 0..MaxFields }

DeclaredLists ==
    LET FieldPool ==
            { FProduct, FTitle, FLogo,
              [key |-> "bg", id |-> "", description |-> "src of background"],
              [key |-> "", id |-> "", description |-> "hero image"] }
    IN  UNION { {d \in [1..n -> FieldPool] : \A i, j \in 1..n : i # j => d[i] # d[j]} :
                n \in 0..MaxDeclared }

InitMap ==
    /\ retries = DefaultRetries
    /\ retryDelay = DefaultRetryDelay
    /\ rpc = "idle"
    /\ reqUrl = ""
    /\ reqAuth = ""
    /\ attempt = 0
    /\ lastError = NoError
    /\ delays = <<>>
    /\ sent = <<>>
    /\ seen = <<>>
    /\ result = Pending
    /\ reqStdout = <<>>
    /\ reqStderr = <<>>
    /\ autoMapping \in BOOLEAN
    /\ maxTemplateIdLength = DefaultMaxTemplateIdLength
    /\ logLevel = DefaultLogLevel
    /\ maxApiKeyLength = DefaultMaxApiKeyLength
    /\ templateValidation = NotValidated
    /\ keyValidation = NotValidated
    /\ DEFAULT_API_KEY = ""
    /\ studioTemplates = <<>>
    /\ libraryTemplates = <<>>
    /\ declaredMods \in DeclaredLists
    /\ tool = "none"
    /\ hpc = "map"
    /\ apiKey = ""
    /\ templateId = ""
    /\ templateTypeArg = "auto"
    /\ modifications \in InputObjects
    /\ templateType = "null"
    /\ resolvedTemplateId = ""
    /\ mappedModifications = <<>>
    /\ requestBody = NoBody
    /\ reply = NoReply
    /\ fetchLog = <<>>
    /\ transport = Null
    /\ sseOpen = {}
    /\ posts = <<>>
    /\ bootpc = "ready"
    /\ dotEnv = <<>>
    /\ processEnv = StartedEnv

\* const mapped = await autoMapModifications(templateId, modifications, apiKey)
AutoMapCall ==
    /\ hpc = "map"
    /\ \E mo \in FetchOutcomes :
          LET m == autoMapModifications(modifications, mo)
          IN  /\ mappedModifications' = m.out
              /\ fetchLog' = fetchLog \o m.log
    /\ hpc' = "mapped"
    /\ UNCHANGED <<templateType, resolvedTemplateId, requestBody, reply>>
    /\ UNCHANGED <<reqVars, envVars, argVars, valVars>>

SpecMap == InitMap /\ [][AutoMapCall]_vars

----------------------------------------------------------------------------
\* Specification of the validators alone: one call of each, for every string

RECURSIVE StringsOfLength(_)
StringsOfLength(n) ==
    LET IdAlphabet == {"a", "Z", "7", "_", "-", " ", "@"}
    IN  IF n = 0 THEN {""} ELSE {s \o c : s \in StringsOfLength(n - 1), c \in IdAlphabet}

RECURSIVE Repeat(_, _)
Repeat(c, n) ==
    IF n = 0 THEN ""
    ELSE LET half == Repeat(c, n \div 2)
         IN  IF n % 2 = 0 THEN half \o half ELSE half \o half \o c

IdStrings ==
    UNION {StringsOfLength(n) : n \in 0..MaxIdLen}
    \cup { Repeat("a", DefaultMaxTemplateIdLength),
           Repeat("a", DefaultMaxTemplateIdLength + 1),
           " " \o Repeat("a", DefaultMaxTemplateIdLength),
           "\t" \o "banner" \o "\n",
           "template with spaces",
           "template@test" }

KeyStrings ==
    { "", "short", "sk-1234567890abcdef", "key with spaces",
      Repeat("k", MinApiKeyLength - 1),
      Repeat("k", MinApiKeyLength),
      Repeat(" ", MinApiKeyLength),
      "  " \o Repeat("k", MinApiKeyLength - 2) \o "  ",
      Repeat("k", DefaultMaxApiKeyLength),
      Repeat("k", DefaultMaxApiKeyLength + 1),
      Repeat("k", DefaultMaxApiKeyLength) \o " " }

InitValid ==
    /\ retries = DefaultRetries
    /\ retryDelay = DefaultRetryDelay
    /\ rpc = "idle"
    /\ reqUrl = ""
    /\ reqAuth = ""
    /\ attempt = 0
    /\ lastError = NoError
    /\ delays = <<>>
    /\ sent = <<>>
    /\ seen = <<>>
    /\ result = Pending
    /\ reqStdout = <<>>
    /\ reqStderr = <<>>
    /\ autoMapping = TRUE
    /\ maxTemplateIdLength = DefaultMaxTemplateIdLength
    /\ logLevel = DefaultLogLevel
    /\ maxApiKeyLength = DefaultMaxApiKeyLength
    /\ DEFAULT_API_KEY = ""
    /\ studioTemplates = <<>>
    /\ libraryTemplates = <<>>
    /\ declaredMods = <<>>
    /\ tool = "none"
    /\ hpc = "validate"
    /\ apiKey \in KeyStrings
    /\ templateId \in IdStrings
    /\ templateTypeArg = "auto"
    /\ modifications = <<>>
    /\ templateType = "null"
    /\ resolvedTemplateId = ""
    /\ mappedModifications = <<>>
    /\ requestBody = NoBody
    /\ reply = NoReply
    /\ fetchLog = <<>>
    /\ transport = Null
    /\ sseOpen = {}
    /\ posts = <<>>
    /\ bootpc = "ready"
    /\ dotEnv = <<>>
    /\ processEnv = StartedEnv
    /\ templateValidation = NotValidated
    /\ keyValidation = NotValidated

\* const templateValidation = validateTemplateId(templateId)
ValidateTemplateIdCall ==
    /\ hpc = "validate"
    /\ templateValidation = NotValidated
    /\ templateValidation' = validateTemplateId(templateId)
    /\ UNCHANGED <<keyValidation, reqVars, envVars, argVars, runVars>>

\* const keyValidation = validateApiKey(apiKey)
ValidateApiKeyCall ==
    /\ hpc = "validate"
    /\ keyValidation = NotValidated
    /\ keyValidation' = validateApiKey(apiKey)
    /\ UNCHANGED <<templateValidation, reqVars, envVars, argVars, runVars>>

NextValid == ValidateTemplateIdCall \/ ValidateApiKeyCall

SpecValid == InitValid /\ [][NextValid]_vars

----------------------------------------------------------------------------
\* Specification of the module initialisation: one start of the server, for
\* every environment and every .env file drawn

\* the environments of the process: each variable unset or set
ProcessEnvs ==
    LET ProcessValues ==
            [ name \in EnvNames |->
                CASE name = "ORSHOT_API_KEY" -> {"", "sk_env_0123456789"}
                  [] name = "API_RETRIES" -> {"", "2"}
                  [] name = "API_RETRY_DELAY" -> {"", "2000"}
                  [] name = "LOG_LEVEL" -> {"", "warn"}
                  [] name = "DISABLE_AUTO_MAPPING" -> {"", "true"}
                  [] OTHER -> {""} ]
    IN  {e \in [EnvNames -> UNION {ProcessValues[n] : n \in EnvNames}] :
            \A n \in EnvNames : e[n] \in ProcessValues[n]}

\* the .env files: a comment, an empty line, and any of the lines below
DotEnvFiles ==
    LET DotEnvLines ==
            << "ORSHOT_API_KEY='sk_file_0123456789'",
               "API_RETRIES=5",
               "  API_RETRY_DELAY=500  ",
               "LOG_LEVEL=\"debug\"",
               "DISABLE_AUTO_MAPPING=true" >>
    IN  { <<"# Orshot MCP server", "">> \o SelectSeq(DotEnvLines, LAMBDA l : l \in chosen) :
            chosen \in SUBSET {DotEnvLines[i] : i \in DOMAIN DotEnvLines} }

InitBoot ==
    /\ bootpc = "imports"
    /\ processEnv \in ProcessEnvs
    /\ dotEnv \in DotEnvFiles
    /\ retries = 0
    /\ retryDelay = 0
    /\ logLevel = ""
    /\ autoMapping = FALSE
    /\ maxTemplateIdLength = 0
    /\ maxApiKeyLength = 0
    /\ DEFAULT_API_KEY = ""
    /\ rpc = "idle"
    /\ reqUrl = ""
    /\ reqAuth = ""
    /\ attempt = 0
    /\ lastError = NoError
    /\ delays = <<>>
    /\ sent = <<>>
    /\ seen = <<>>
    /\ result = Pending
    /\ reqStdout = <<>>
    /\ reqStderr = <<>>
    /\ studioTemplates = <<>>
    /\ libraryTemplates = <<>>
    /\ declaredMods = <<>>
    /\ tool = "none"
    /\ hpc = "none"
    /\ apiKey = ""
    /\ templateId = ""
    /\ templateTypeArg = "auto"
    /\ modifications = <<>>
    /\ templateType = "null"
    /\ resolvedTemplateId = ""
    /\ mappedModifications = <<>>
    /\ requestBody = NoBody
    /\ reply = NoReply
    /\ fetchLog = <<>>
    /\ transport = Null
    /\ sseOpen = {}
    /\ posts = <<>>
    /\ templateValidation = NotValidated
    /\ keyValidation = NotValidated

NextBoot == BootImports \/ BootLoadDotEnv \/ BootReadApiKey

SpecBoot == InitBoot /\ [][NextBoot]_vars

----------------------------------------------------------------------------
\* Specification of the tool handlers: one invocation of one tool

\* the tools that take a template ID
TemplateTools ==
    {"generate-image", "generate-image-from-studio", "generate-image-from-library",
     "get-template-modifications"}

\* the tools that take an API key only
KeyTools == {"get-library-templates", "get-studio-templates", "check-api-status"}

Tools == TemplateTools \cup KeyTools

Init ==
    /\ retries \in {1, 2}
    /\ retryDelay = DefaultRetryDelay
    /\ rpc = "idle"
    /\ reqUrl = ""
    /\ reqAuth = ""
    /\ attempt = 0
    /\ lastError = NoError
    /\ delays = <<>>
    /\ sent = <<>>
    /\ seen = <<>>
    /\ result = Pending
    /\ reqStdout = <<>>
    /\ reqStderr = <<>>
    /\ DEFAULT_API_KEY \in {"", "sk_env_0123456789"}
    /\ maxTemplateIdLength = DefaultMaxTemplateIdLength
    /\ logLevel = DefaultLogLevel
    /\ maxApiKeyLength = DefaultMaxApiKeyLength
    /\ templateValidation = NotValidated
    /\ keyValidation = NotValidated
    /\ studioTemplates \in StudioListings
    /\ libraryTemplates \in LibraryListings
    /\ tool \in Tools
    /\ apiKey \in {"", "sk_arg_0123456789", "short"}
    /\ declaredMods = <<FTitle, FProduct>>
    /\ IF tool \in KeyTools
       THEN /\ templateId = ""
            /\ templateTypeArg = "auto"
            /\ modifications = <<>>
            /\ autoMapping = TRUE
       ELSE IF tool = "get-template-modifications"
       THEN /\ templateId \in TemplateIds
            /\ templateTypeArg \in {"auto", "library", "studio"}
            /\ modifications = <<>>
            /\ autoMapping = TRUE
       ELSE /\ templateId \in TemplateIds
            /\ templateTypeArg = "auto"
            /\ modifications = <<Entry("title", Str("Hello")), Entry("img", Url1)>>
            /\ autoMapping \in BOOLEAN
    /\ hpc = "start"
    /\ templateType = "null"
    /\ resolvedTemplateId = ""
    /\ mappedModifications = <<>>
    /\ requestBody = NoBody
    /\ reply = NoReply
    /\ fetchLog = <<>>
    /\ transport = Null
    /\ sseOpen = {}
    /\ posts = <<>>
    /\ bootpc = "ready"
    /\ dotEnv = <<>>
    /\ processEnv = StartedEnv

Next ==
    \/ GenerateImage_Detect
    \/ GenerateImage_Library
    \/ GenerateImage_Resolve
    \/ GenerateImage_Render
    \/ FromStudio_Resolve
    \/ FromStudio_Render
    \/ FromLibrary_Generate
    \/ GenerationReply
    \/ GetMods_Detect
    \/ GetMods_Fetch
    \/ ListTemplates
    \/ CheckApiStatus
    \/ makeOrShotRequest

Spec == Init /\ [][Next]_vars

----------------------------------------------------------------------------
\* Specification of generate-image with the studio listing changing on the
\* remote side: every fetch of /v1/studio/templates returns the listing of the
\* moment, and a template may be renamed between two fetches

RemoteRename ==
    /\ \A i \in DOMAIN studioTemplates : studioTemplates[i].name # Str("retitled")
    /\ \E i \in DOMAIN studioTemplates :
          /\ studioTemplates[i].name.t = "string"
          /\ studioTemplates' = [studioTemplates EXCEPT ![i].name = Str("retitled")]
    /\ UNCHANGED <<bootpc, processEnv, dotEnv, logLevel, autoMapping, maxTemplateIdLength,
                   maxApiKeyLength, DEFAULT_API_KEY, libraryTemplates, declaredMods>>
    /\ UNCHANGED <<reqVars, argVars, runVars, valVars, sseVars>>

InitRename ==
    /\ Init
    /\ tool = "generate-image"
    /\ retries = 1
    /\ apiKey = "sk_arg_0123456789"
    /\ DEFAULT_API_KEY = ""
    /\ autoMapping = TRUE

NextRename ==
    \/ GenerateImage_Detect
    \/ GenerateImage_Library
    \/ GenerateImage_Resolve
    \/ GenerateImage_Render
    \/ GenerationReply
    \/ makeOrShotRequest
    \/ RemoteRename

SpecRename == InitRename /\ [][NextRename]_vars

----------------------------------------------------------------------------
\* Specification of main in SSE mode: the Express handlers of GET /sse and
\* POST /messages, called by several clients in any order

MaxClients == 3
MaxPosts == 3
Clients == 1..MaxClients

\* new SSEServerTransport("/messages", res), res being the response of client c
SSEServerTransport(c) == [t |-> "sse", client |-> c]

\* app.get("/sse"): the transport of the new connection replaces the one held
\* by the variable transport
SseConnect ==
    \E c \in Clients \ sseOpen :
        /\ transport' = SSEServerTransport(c)
        /\ sseOpen' = sseOpen \cup {c}
        /\ UNCHANGED posts
        /\ UNCHANGED <<bootpc, processEnv, dotEnv, logLevel, autoMapping, maxTemplateIdLength,
                       maxApiKeyLength, DEFAULT_API_KEY, studioTemplates, libraryTemplates,
                       declaredMods>>
        /\ UNCHANGED <<reqVars, argVars, runVars, valVars>>

\* app.post("/messages") for a request of client c: status 400 without a
\* transport, else transport.handlePostMessage(req, res)
PostMessage ==
    \E c \in Clients :
        /\ Len(posts) < MaxPosts
        /\ posts' = Append(posts, [ client |-> c,
                                    open |-> c \in sseOpen,
                                    status |-> IF transport = Null THEN "400" ELSE "handled",
                                    by |-> transport ])
        /\ UNCHANGED <<transport, sseOpen>>
        /\ UNCHANGED <<bootpc, processEnv, dotEnv, logLevel, autoMapping, maxTemplateIdLength,
                       maxApiKeyLength, DEFAULT_API_KEY, studioTemplates, libraryTemplates,
                       declaredMods>>
        /\ UNCHANGED <<reqVars, argVars, runVars, valVars>>

InitSse ==
    /\ retries = DefaultRetries
    /\ retryDelay = DefaultRetryDelay
    /\ rpc = "idle"
    /\ reqUrl = ""
    /\ reqAuth = ""
    /\ attempt = 0
    /\ lastError = NoError
    /\ delays = <<>>
    /\ sent = <<>>
    /\ seen = <<>>
    /\ result = Pending
    /\ reqStdout = <<>>
    /\ reqStderr = <<>>
    /\ logLevel = DefaultLogLevel
    /\ ToolIdle

NextSse == SseConnect \/ PostMessage

SpecSse == InitSse /\ [][NextSse]_vars

----------------------------------------------------------------------------
\* Vocabulary of the properties

Range(seq) == {seq[i] : i \in DOMAIN seq}
NonRetryableStatuses == {401, 403, 404}

\* an attempt that received HTTP 401, 403 or 404
ReceivedNoRetryStatus(o) == o.kind = "http" /\ o.status \in NonRetryableStatuses

\* an attempt that failed with a retryable outcome: a network error, a timeout,
\* or a non-2xx status other than 401, 403 and 404
RetryableOutcome(o) ==
    \/ o.kind \in {"network", "timeout"}
    \/ o.kind = "http" /\ o.status \notin NonRetryableStatuses

\* the identifier matches template t of the studio listing: by id (as string or
\* as number) or by case-insensitive name
RefersToStudio(t, id) ==
    \/ t.id = Str(id)
    \/ (isLikelyStudioTemplate(id) /\ t.id = Num(DigitsValue(id, 0)))
    \/ (t.name.t = "string" /\ ToLowerCase(t.name.s) = ToLowerCase(id))

\* the identifier matches template t of the library listing
RefersToLibrary(t, id) == t.id = Str(id) \/ t.template_id = Str(id)

StudioMatches(id) == {i \in DOMAIN studioTemplates : RefersToStudio(studioTemplates[i], id)}
LibraryMatches(id) == {i \in DOMAIN libraryTemplates : RefersToLibrary(libraryTemplates[i], id)}

FetchedOk(url) == Fetched(url, "ok") \in Range(fetchLog)
Urls(log) == [i \in DOMAIN log |-> log[i].url]

\* getTemplateType has returned and nothing else of the invocation has fetched yet
DetectDone ==
    /\ tool \in {"generate-image", "get-template-modifications"}
    /\ templateTypeArg = "auto"
    /\ ActualApiKey # ""
    /\ hpc = "typed" \/ (hpc = "replied" /\ reply.kind = "not-found")

\* resolveStudioTemplateId has returned in generate-image-from-studio and nothing
\* else of the invocation has fetched yet
ResolveDone ==
    /\ tool = "generate-image-from-studio"
    /\ ActualApiKey # ""
    /\ hpc = "resolved" \/ (hpc = "replied" /\ reply.kind = "studio-not-found")

----------------------------------------------------------------------------
\* C1: whenever an attempt of makeOrShotRequest receives HTTP 401, 403 or 404, the
\* wrapper stops at once: that attempt is the last one, no backoff delay follows
\* it and the call returns null, whatever body the response carries.
C1_StopsOnCallerError ==
    \A k \in DOMAIN seen :
        ReceivedNoRetryStatus(seen[k]) =>
            /\ k = Len(seen)
            /\ Len(delays) = k - 1
            /\ rpc = "done"
            /\ result = Null

\* C2: a call whose every attempt fails with a retryable outcome makes exactly
\* `retries` attempts, waits 2^(k-1) * retryDelay after the k-th failed attempt for
\* each k < retries, waits nothing after the last attempt, and returns null.
C2_RetriesWithBackoff ==
    (rpc = "done" /\ \A k \in DOMAIN seen : RetryableOutcome(seen[k])) =>
        /\ Len(seen) = retries
        /\ delays = [k \in 1..(retries - 1) |-> Pow2(k - 1) * retryDelay]
        /\ result = Null

\* C3: makeOrShotRequest never throws or rejects: whatever the attempts receive,
\* the call stays pending until it settles, and it settles either to the parsed
\* body of a 2xx response (received by its last attempt) or to null.
C3_NeverThrows ==
    /\ result # Thrown
    /\ rpc = "attempt" => result = Pending
    /\ rpc = "done" =>
          \/ result = Null
          \/ result.t = "json" /\ seen # <<>> /\ seen[Len(seen)].kind = "ok"

\* a call that met a network error, an unparsable 2xx body and a timeout, and
\* returned null
C3_Witness ==
    /\ rpc = "done"
    /\ result = Null
    /\ Len(seen) = 3
    /\ seen[1].kind = "network"
    /\ seen[2].kind = "badjson"
    /\ seen[3].kind = "timeout"

\* C4: a POST to /v1/studio/render is issued only after the template reference was
\* matched against exactly one template of the studio listing fetched during the
\* invocation; a reference that matches no studio template produces no render request.
C4_RenderOnlyAfterMatch ==
    RenderUrl \in Range(sent) =>
        /\ FetchedOk(StudioUrl)
        /\ Cardinality(StudioMatches(templateId)) = 1

\* C5: getTemplateType consults the listings in a fixed order. An all-digit
\* identifier: the studio listing first, 'studio' on a match there, else the library
\* listing. Any other identifier: the library listing first, 'library' on a match
\* there, else the studio listing (id or case-insensitive name). So an all-digit
\* identifier found in both fetched listings is 'studio', any other one 'library'.
C5_FixedOrder ==
    DetectDone =>
        LET numeric == isLikelyStudioTemplate(templateId)
            inStudio == FetchedOk(StudioUrl) /\ StudioMatches(templateId) # {}
            inLibrary == FetchedOk(LibraryUrl) /\ LibraryMatches(templateId) # {}
        IN  /\ numeric => Urls(fetchLog) \in {<<StudioUrl>>, <<StudioUrl, LibraryUrl>>}
            /\ ~numeric => Urls(fetchLog) \in {<<LibraryUrl>>, <<LibraryUrl, StudioUrl>>}
            /\ (numeric /\ inStudio) => (templateType = "studio" /\ Urls(fetchLog) = <<StudioUrl>>)
            /\ (numeric /\ ~inStudio /\ inLibrary) => templateType = "library"
            /\ (~numeric /\ inLibrary) => (templateType = "library" /\ Urls(fetchLog) = <<LibraryUrl>>)
            /\ (~numeric /\ ~inLibrary /\ inStudio) => templateType = "studio"
            /\ templateType = "studio" => inStudio
            /\ templateType = "library" => inLibrary

\* an all-digit identifier present in both listings was classified as studio
C5_Witness ==
    /\ tool = "generate-image"
    /\ hpc = "typed"
    /\ templateId = "7"
    /\ StudioMatches(templateId) # {}
    /\ LibraryMatches(templateId) # {}
    /\ templateType = "studio"

\* C6 as stated: generate-image issues at most one generation POST per invocation,
\* to /v1/generate/images exactly when getTemplateType returned 'library', to
\* /v1/studio/render exactly when it returned 'studio', and none when it returned null.
C6_OnePostByType ==
    (tool = "generate-image" /\ hpc = "replied") =>
        /\ Len(sent) <= 1
        /\ GenerateUrl \in Range(sent) <=> templateType = "library"
        /\ RenderUrl \in Range(sent) <=> templateType = "studio"

\* C6 as amended: generate-image makes at most one wrapper call per invocation, so
\* at most `retries` POST attempts, all to one endpoint: to /v1/generate/images
\* exactly when getTemplateType returned 'library'; to /v1/studio/render exactly
\* when it returned 'studio' and resolveStudioTemplateId then returned an ID; and
\* no generation POST at all otherwise.
C6_OneCallByType ==
    tool = "generate-image" =>
        /\ Len(sent) <= retries
        /\ Cardinality(Range(sent)) <= 1
        /\ GenerateUrl \in Range(sent) => templateType = "library"
        /\ RenderUrl \in Range(sent) => (templateType = "studio" /\ resolvedTemplateId # "")
        /\ hpc = "replied" =>
              /\ templateType = "library" => GenerateUrl \in Range(sent)
              /\ (templateType = "studio" /\ resolvedTemplateId # "") => RenderUrl \in Range(sent)

\* a studio generation whose first POST failed and was sent again
C6_Witness ==
    /\ tool = "generate-image"
    /\ hpc = "replied"
    /\ templateType = "studio"
    /\ sent = <<RenderUrl, RenderUrl>>
    /\ reply.kind = "success"

\* C7: resolveStudioTemplateId returns an all-digit input unchanged without any
\* fetch; otherwise it fetches the studio listing once and returns String(id) of
\* a template whose name equals the input case-insensitively or whose id equals
\* it exactly, and null when no template of the fetched listing matches.
C7_ResolveStudio ==
    ResolveDone =>
        IF isLikelyStudioTemplate(templateId)
        THEN resolvedTemplateId = templateId /\ fetchLog = <<>>
        ELSE LET matches == {i \in DOMAIN studioTemplates :
                                \/ studioTemplates[i].id = Str(templateId)
                                \/ /\ studioTemplates[i].name.t = "string"
                                   /\ ToLowerCase(studioTemplates[i].name.s) = ToLowerCase(templateId)}
                 listed == fetchLog[1].outcome = "ok" /\ matches # {}
             IN  /\ Urls(fetchLog) = <<StudioUrl>>
                 /\ listed => \E i \in matches : resolvedTemplateId = String(studioTemplates[i].id)
                 /\ ~listed => resolvedTemplateId = ""

\* a name in another letter case was resolved to the numeric ID of its template
C7_Witness ==
    /\ tool = "generate-image-from-studio"
    /\ hpc = "resolved"
    /\ templateId = "BANNER"
    /\ resolvedTemplateId = "7"
    /\ fetchLog = <<Fetched(StudioUrl, "ok")>>

\* C8: for an identifier that matches no template of either listing,
\* getTemplateType returns null and the calling tool (generate-image,
\* get-template-modifications with type auto) replies 'not found' and issues no
\* generation request and no modification request.
C8_NotFound ==
    ( /\ tool \in {"generate-image", "get-template-modifications"}
      /\ templateTypeArg = "auto"
      /\ ActualApiKey # ""
      /\ hpc # "start"
      /\ StudioMatches(templateId) = {}
      /\ LibraryMatches(templateId) = {} ) =>
        /\ templateType = "null"
        /\ hpc = "replied"
        /\ reply.kind = "not-found"
        /\ sent = <<>>
        /\ rpc = "idle"
        /\ \A i \in DOMAIN fetchLog : fetchLog[i].url \in {StudioUrl, LibraryUrl}
        /\ Len(fetchLog) <= 2

\* get-template-modifications looked an unknown identifier up in both listings,
\* fetched successfully, and replied 'not found'
C8_Witness ==
    /\ tool = "get-template-modifications"
    /\ templateId = "ghost"
    /\ hpc = "replied"
    /\ reply.kind = "not-found"
    /\ fetchLog = <<Fetched(LibraryUrl, "ok"), Fetched(StudioUrl, "ok")>>

\* a declared field that matches the image-token set {image, url, photo, picture,
\* media, src} on its key or on its description
ImageLike(f) ==
    \E w \in {"image", "url", "photo", "picture", "media", "src"} :
        Includes(ToLowerCase(f.key), w) \/ Includes(ToLowerCase(f.description), w)

\* autoMapModifications ran with the flag on and the declared fields fetched
Mapped == hpc = "mapped" /\ autoMapping /\ fetchLog = <<Fetched(StudioModsUrl, "ok")>>

\* C9: with the flag on and the declared fields fetched, for every input field k
\* holding an http(s) URL and the first declared field f (with a key) that matches
\* the image-token set, the output holds that URL under f's key and no longer
\* holds k, unless k is f's key.
C9_UrlMovedToImageField ==
    Mapped =>
        \A i \in DOMAIN modifications :
            \A j \in DOMAIN declaredMods :
                ( /\ IsUrlValue(modifications[i].v)
                  /\ ImageLike(declaredMods[j])
                  /\ declaredMods[j].key # ""
                  /\ \A h \in 1..(j - 1) : ~ImageLike(declaredMods[h]) ) =>
                    /\ Get(mappedModifications, declaredMods[j].key) = modifications[i].v
                    /\ modifications[i].k # declaredMods[j].key =>
                          ~Has(mappedModifications, modifications[i].k)

\* C10: every input entry whose value is no http(s) URL is in the output under
\* the same key with the same value; and when no declared field matches the
\* image-token set, the output equals the input.
C10_NonUrlUntouched ==
    hpc = "mapped" =>
        /\ \A i \in DOMAIN modifications :
              ~IsUrlValue(modifications[i].v) =>
                  /\ Has(mappedModifications, modifications[i].k)
                  /\ Get(mappedModifications, modifications[i].k) = modifications[i].v
        /\ (\A j \in DOMAIN declaredMods : ~ImageLike(declaredMods[j])) =>
              mappedModifications = modifications

\* the input of the call holds no http(s) URL
NoUrlValue == \A i \in DOMAIN modifications : ~IsUrlValue(modifications[i].v)

\* C11: autoMapModifications returns its input, same keys and same values, when
\* the feature flag is off (and then it makes no request), when the template
\* declares no modification field (the fetched body is an empty array or no
\* array), and when no field of the input holds an http(s) URL.
C11_Identity ==
    hpc = "mapped" =>
        /\ ~autoMapping => (mappedModifications = modifications /\ fetchLog = <<>>)
        /\ ( /\ autoMapping
             /\ ResponseOk(fetchLog[1].outcome)
             /\ ArrayOf(fetchLog[1].outcome, declaredMods) = <<>> ) =>
                mappedModifications = modifications
        /\ NoUrlValue => mappedModifications = modifications

\* the mapping ran over an image field and an input without URL, and returned
\* the input
C11_Witness ==
    /\ hpc = "mapped"
    /\ autoMapping
    /\ fetchLog = <<Fetched(StudioModsUrl, "ok")>>
    /\ declaredMods = <<FLogo, FProduct>>
    /\ modifications = <<Entry("productImage", Str("ftp://x.com/a.jpg")), Entry("title", Str(""))>>
    /\ mappedModifications = modifications

\* the lookup of the declared fields was made and failed: fetch rejected, the
\* response was non-2xx, or its body was no JSON
MapFetchFailed ==
    /\ fetchLog # <<>>
    /\ fetchLog[Len(fetchLog)].url = StudioModsUrl
    /\ fetchLog[Len(fetchLog)].outcome \in {"throw", "notok", "badjson"}

\* C12: in the studio generation tools, when the lookup of the declared fields
\* fails, autoMapModifications returns the caller's input with identical keys and
\* values, the handler goes on to the render request, whose body carries those
\* fields, and the reply is the one of the render request, never one of the mapping.
C12_MappingNeverFails ==
    (tool \in {"generate-image", "generate-image-from-studio"} /\ MapFetchFailed) =>
        /\ mappedModifications = modifications
        /\ hpc \in {"requesting", "replied"}
        /\ reqUrl = RenderUrl
        /\ requestBody = [templateId |-> resolvedTemplateId, modifications |-> modifications]
        /\ hpc = "replied" =>
              /\ RenderUrl \in Range(sent)
              /\ reply.kind = (IF result = Null THEN "failed" ELSE "success")

\* the body of the lookup was no JSON, and the image was rendered with the
\* fields as given
C12_Witness ==
    /\ tool = "generate-image-from-studio"
    /\ autoMapping
    /\ MapFetchFailed
    /\ fetchLog[Len(fetchLog)].outcome = "badjson"
    /\ hpc = "replied"
    /\ reply.kind = "success"
    /\ sent = <<RenderUrl>>
    /\ requestBody.modifications = modifications

\* the invocation carries an input that validateTemplateId or validateApiKey rejects
RejectedInput ==
    \/ tool \in TemplateTools /\ ~validateTemplateId(templateId).isValid
    \/ tool \in Tools /\ ~validateApiKey(ActualApiKey).isValid

\* C13: in every tool handler that takes a template ID or an API key, an input
\* that validateTemplateId or validateApiKey rejects makes the invocation return
\* a failure message, and no outbound HTTP request is issued: neither a direct
\* fetch nor a request through the wrapper.
C13_InvalidNeverSent ==
    RejectedInput =>
        /\ fetchLog = <<>>
        /\ sent = <<>>
        /\ rpc = "idle"
        /\ hpc \in {"start", "replied"}
        /\ hpc = "replied" => reply.kind \in {"invalid-template-id", "no-api-key", "invalid-api-key"}

\* a direct fetch that failed in transport: fetch rejected, the response was
\* non-2xx, or its body could not be read
FailedFetch(f) == f.outcome \in {"throw", "notok", "badjson"}

\* C14: a tool replies 'not found' only when the listings it consulted were
\* fetched successfully and hold no match: an invocation in which a listing
\* fetch failed never replies 'not found'.
C14_NotFoundIsNotTransport ==
    (hpc = "replied" /\ reply.kind \in {"not-found", "studio-not-found"}) =>
        /\ fetchLog # <<>>
        /\ \A i \in DOMAIN fetchLog : ~FailedFetch(fetchLog[i])
        /\ reply.kind = "not-found" =>
              (StudioMatches(templateId) = {} /\ LibraryMatches(templateId) = {})

\* the messages of the errors a request to the upstream API can end in
UpstreamMessages ==
    NetworkMessages \cup {AbortMessage, SyntaxMessage}
    \cup {ErrorMessage(st, b) : st \in ErrorStatuses, b \in ErrorBodies}
    \cup {"HTTP error! status: " \o ToString(st) : st \in ErrorStatuses}

\* C15: every upstream call of a handler goes through the request wrapper: a
\* call that failed with a retryable failure (fetch rejected, a body that
\* cannot be read) is made again while attempts remain, and the reply carries a
\* generic failure message, never the message of the upstream error.
C15_TransportAbsorbed ==
    hpc = "replied" =>
        /\ \A i \in DOMAIN fetchLog :
              (Throws(fetchLog[i].outcome) /\ retries > 1) =>
                  /\ i < Len(fetchLog)
                  /\ fetchLog[i + 1].url = fetchLog[i].url
        /\ \A m \in UpstreamMessages : ~Includes(reply.text, m)

\* C16 as stated: an identifier matching ^[A-Za-z0-9_-]{1,100}$ is valid with
\* sanitized equal to the trimmed input; every string that contains a space or
\* '@', is empty or blank, or is longer than the configured maximum is invalid
\* with sanitized '' and a non-empty error.
C16_ClassifiesAsGiven ==
    templateValidation # NotValidated =>
        /\ (IdPattern(templateId) /\ Len(templateId) <= DefaultMaxTemplateIdLength) =>
              templateValidation = Valid(Trim(templateId))
        /\ ( \/ Includes(templateId, " ")
             \/ Includes(templateId, "@")
             \/ Trim(templateId) = ""
             \/ Len(templateId) > maxTemplateIdLength ) =>
                /\ ~templateValidation.isValid
                /\ templateValidation.sanitized = ""
                /\ templateValidation.error # ""

\* C16 as amended: validateTemplateId classifies the input with its leading and
\* trailing white space removed. When the trimmed input matches
\* ^[A-Za-z0-9_-]+$ and is no longer than the configured maximum, the result is
\* valid with sanitized equal to the trimmed input; in every other case (empty
\* or blank, too long after trimming, a space, '@' or another character outside
\* the class left after trimming) it is invalid with sanitized '' and a
\* non-empty error.
C16_ClassifiesTrimmed ==
    templateValidation # NotValidated =>
        LET t == Trim(templateId)
        IN  IF IdPattern(t) /\ Len(t) <= maxTemplateIdLength
            THEN /\ templateValidation.isValid
                 /\ templateValidation.sanitized = t
            ELSE /\ ~templateValidation.isValid
                 /\ templateValidation.sanitized = ""
                 /\ templateValidation.error \notin {"", NotValidated.error}

\* an identifier with a leading space was accepted and sanitized
C16_Witness ==
    /\ hpc = "validate"
    /\ templateId = " a7"
    /\ templateValidation = Valid("a7")

\* the key with its leading and trailing white space removed
TrimmedKey == Trim(apiKey)

\* C17 as stated: validateApiKey returns isValid=false with a non-empty error
\* exactly when the key is missing or empty, shorter than 10 characters, or
\* longer than the configured maximum, and isValid=true for every other string.
C17_LengthAsGiven ==
    keyValidation # NotValidated =>
        IF apiKey = "" \/ Len(apiKey) < MinApiKeyLength \/ Len(apiKey) > maxApiKeyLength
        THEN ~keyValidation.isValid /\ keyValidation.error # ""
        ELSE keyValidation.isValid

\* C17 as amended: the lengths are those of the key with its leading and
\* trailing white space removed: the result is invalid with a non-empty error
\* exactly when the key is missing or empty, or its trimmed length is below 10
\* or above the configured maximum, and valid for every other string.
C17_LengthTrimmed ==
    keyValidation # NotValidated =>
        IF apiKey = "" \/ Len(TrimmedKey) < MinApiKeyLength \/ Len(TrimmedKey) > maxApiKeyLength
        THEN ~keyValidation.isValid /\ keyValidation.error \notin {"", NotValidated.error}
        ELSE keyValidation.isValid /\ keyValidation.error = ""

\* a key of twelve characters, eight of them inside white space, was rejected
\* as too short
C17_Witness ==
    /\ hpc = "validate"
    /\ Len(apiKey) = MinApiKeyLength + 2
    /\ Len(TrimmedKey) = MinApiKeyLength - 2
    /\ keyValidation = Invalid("API key appears to be too short")

\* the key the invocation has to authenticate with: the apiKey argument when
\* one is given, else the environment's ORSHOT_API_KEY
SelectedKey == IF apiKey # "" THEN apiKey ELSE DEFAULT_API_KEY

\* C18 as stated: every request of a key-using tool, direct or through the
\* wrapper, carries the apiKey argument when one is given and the environment's
\* ORSHOT_API_KEY otherwise; when neither is present the invocation replies
\* 'No API key provided' and issues no request.
C18_NoKeyReply ==
    tool \in Tools =>
        /\ \A i \in DOMAIN fetchLog : fetchLog[i].auth = SelectedKey
        /\ rpc # "idle" => reqAuth = SelectedKey
        /\ (apiKey = "" /\ DEFAULT_API_KEY = "" /\ hpc # "start") =>
              /\ hpc = "replied"
              /\ reply.kind = "no-api-key"
              /\ fetchLog = <<>>
              /\ sent = <<>>
              /\ rpc = "idle"

\* C18 as amended: the key is selected as stated, and when neither key is
\* present the invocation issues no request and replies 'No API key provided',
\* except that generate-image-from-library, which validates the template ID
\* before it looks at the key, replies 'Invalid template ID' when the template
\* ID is rejected; 'No API key provided' is replied in no other case.
C18_KeySelection ==
    tool \in Tools =>
        /\ \A i \in DOMAIN fetchLog : fetchLog[i].auth = SelectedKey
        /\ rpc # "idle" => reqAuth = SelectedKey
        /\ (apiKey = "" /\ DEFAULT_API_KEY = "" /\ hpc # "start") =>
              /\ hpc = "replied"
              /\ reply.kind = (IF tool = "generate-image-from-library"
                                  /\ ~validateTemplateId(templateId).isValid
                               THEN "invalid-template-id" ELSE "no-api-key")
              /\ fetchLog = <<>>
              /\ sent = <<>>
              /\ rpc = "idle"
        /\ (hpc = "replied" /\ reply.kind = "no-api-key") => (apiKey = "" /\ DEFAULT_API_KEY = "")

\* with both keys present, the listing and the generation request of
\* generate-image carried the key given as argument
C18_Witness ==
    /\ tool = "generate-image"
    /\ apiKey = "sk_arg_0123456789"
    /\ DEFAULT_API_KEY = "sk_env_0123456789"
    /\ fetchLog # <<>>
    /\ fetchLog[1].auth = apiKey
    /\ sent = <<GenerateUrl>>
    /\ reqAuth = apiKey

\* C19: every log line of the server goes to stderr, at every log level, the
\* request-timing lines of makeOrShotRequest included: a call of the wrapper
\* writes nothing to stdout, and once it has returned it has logged to stderr.
C19_LogsOnStderrOnly ==
    /\ reqStdout = <<>>
    /\ (rpc = "done" /\ CURRENT_LOG_LEVEL >= INFO) => reqStderr # <<>>

\* C20: the options written in the .env file are the values in effect once the
\* server has started: the configuration singleton (and with it the logger's
\* level) is the one loadConfig builds from the environment the .env file has
\* been loaded into, and the default API key is that environment's ORSHOT_API_KEY.
C20_DotEnvInEffect ==
    bootpc = "ready" =>
        /\ Config = loadConfig(processEnv)
        /\ DEFAULT_API_KEY = processEnv["ORSHOT_API_KEY"]


\* the severity of a line of the wrapper, from the logger method that wrote it
LineLevel(line) ==
    CASE line = "API request" -> INFO
      [] line = "Retrying request after delay" -> DEBUG
      [] OTHER -> ERROR

\* C21: a message is emitted only when its severity is at or above the configured
\* level: with level 'error' the wrapper's stderr holds error lines only, with
\* 'warn' nothing below a warning, with 'info' nothing below info.
C21_LevelFilter ==
    \A i \in DOMAIN reqStderr : LineLevel(reqStderr[i]) <= LOG_LEVELS(logLevel)

\* C22: every call of the wrapper eventually returns, whatever the upstream does
\* and wherever it stops responding: an attempt still waiting for the response
\* (headers or body) is aborted by the timeout and followed by the next attempt
\* or by the final null.
C22_EventuallyReturns == <>(result # Pending)


\* the output of the per-field matching step, before the fallback
StepThree == MapEntries(modifications, declaredMods, 1, modifications)

\* the URL-valued input fields the per-field matching step left where they were:
\* all of them when no declared field with a key matches the image-token set
UnmappedUrls ==
    IF \E j \in DOMAIN declaredMods :
          /\ ImageLike(declaredMods[j]) /\ declaredMods[j].key # ""
          /\ \A h \in 1..(j - 1) : ~ImageLike(declaredMods[h])
    THEN {}
    ELSE {i \in DOMAIN modifications : IsUrlValue(modifications[i].v)}

\* C23: the fallback assignment is made exactly when the per-field matching step
\* left exactly one URL-valued input field unmapped, exactly one declared field
\* matches the image-token set, and that field is not populated yet; otherwise
\* the fallback changes nothing (stated for templates whose declared fields all
\* have a key).
C23_FallbackRule ==
    (Mapped /\ \A j \in DOMAIN declaredMods : declaredMods[j].key # "") =>
        ( mappedModifications # StepThree
          <=> /\ Cardinality(UnmappedUrls) = 1
              /\ Cardinality({j \in DOMAIN declaredMods : ImageLike(declaredMods[j])}) = 1
              /\ \E j \in DOMAIN declaredMods :
                    /\ ImageLike(declaredMods[j])
                    /\ ~Truthy(Get(StepThree, declaredMods[j].key)) )


\* every fetch of the invocation got a listing
AllFetchesOk == \A i \in DOMAIN fetchLog : fetchLog[i].outcome = "ok"

\* C24: a rename on the remote side is observed entirely or not at all by an
\* invocation of generate-image: an identifier classified as studio is never
\* reported as not found by the same invocation, all its fetches succeeding.
C24_RenameAtomic ==
    (tool = "generate-image" /\ templateType = "studio" /\ AllFetchesOk) =>
        reply.kind # "studio-not-found"


\* C25: a request the upstream answered with 2xx is never sent again: the
\* attempt that receives a 2xx response is the last attempt of the call.
C25_NoResendAfter2xx ==
    \A k \in DOMAIN seen : seen[k].status = 200 => k = Len(seen)


\* the URL-valued fields of the input
UrlFields == {i \in DOMAIN modifications : IsUrlValue(modifications[i].v)}

\* C26: autoMapModifications never drops a URL of the caller: when the input
\* has two or more URL-valued fields, every URL value of the input is a value of
\* the output, whatever fields the template declares.
C26_NoUrlDropped ==
    (hpc = "mapped" /\ Cardinality(UrlFields) >= 2) =>
        \A i \in UrlFields :
            \E j \in DOMAIN mappedModifications :
                mappedModifications[j].v = modifications[i].v


\* C27: an input field whose key is the key of a declared field is in the
\* output under the same key with the same value, whatever the other declared
\* fields and their order (stated for an input whose only URL is held by such a
\* field).
C27_AddressedFieldsKept ==
    (hpc = "mapped" /\ Cardinality(UrlFields) = 1) =>
        \A i \in UrlFields :
            (\E j \in DOMAIN declaredMods : declaredMods[j].key = modifications[i].k) =>
                /\ Has(mappedModifications, modifications[i].k)
                /\ Get(mappedModifications, modifications[i].k) = modifications[i].v


\* C28: in generate-image, once the identifier was classified as studio and the
\* render request is built, its templateId is String(t.id) of a template t of
\* the studio listing that the identifier matches (by id, by numeric value or
\* by name).
C28_RenderedIsMatched ==
    (tool = "generate-image" /\ templateType = "studio" /\ requestBody # NoBody) =>
        \E i \in StudioMatches(templateId) :
            requestBody.templateId = String(studioTemplates[i].id)


\* the listings the invocation asked for were all delivered
ListingsFetched ==
    \A i \in DOMAIN fetchLog :
        fetchLog[i].url \in {StudioUrl, LibraryUrl} => fetchLog[i].outcome = "ok"

\* C29: the two resolvers agree on an unchanged listing: in generate-image, with
\* every listing fetched successfully, an identifier that getTemplateType
\* classified as studio is resolved to a non-null ID by resolveStudioTemplateId,
\* and the reply is never 'Studio template not found'.
C29_ResolversAgree ==
    ( /\ tool = "generate-image"
      /\ templateType = "studio"
      /\ hpc \notin {"start", "typed"}
      /\ ListingsFetched ) =>
        /\ resolvedTemplateId # ""
        /\ reply.kind # "studio-not-found"

\* a template listed under the literal ID 'card', without a name, was classified
\* as studio and resolved
C29_Witness ==
    /\ tool = "generate-image"
    /\ templateId = "card"
    /\ templateType = "studio"
    /\ hpc = "resolved"
    /\ resolvedTemplateId = "card"
    /\ ListingsFetched
    /\ Len(fetchLog) = 3


\* C30: every POST /messages of a client whose GET /sse connection is open is
\* handled by the transport created for that connection, whatever other
\* clients connected before or after it.
C30_OwnTransport ==
    \A k \in DOMAIN posts :
        posts[k].open => posts[k].by = SSEServerTransport(posts[k].client)

====
